---- MODULE Spec2Model ----
(***************************************************************************)
(* Model of the sync client: recordUtil (conflict resolution and the       *)
(* synthesis of a CREATE from an UPDATE) and requestUtil (withRetry and    *)
(* the credential refresh).                                                *)
(*                                                                         *)
(* JS objects are functions from the keys they own to values; an absent    *)
(* key is a key outside the DOMAIN.  Object.assign is function override.   *)
(***************************************************************************)
EXTENDS Integers, Sequences, FiniteSets, TLC

(***************************************************************************)
(* Bounds                                                                  *)
(***************************************************************************)
\* timestamps carried by input sites range over 0..MaxTime
MaxTime == 1
\* Date.now() returns a value in (MaxTime+1)..(MaxTime+1+MaxTick)
MaxTick == 1
\* bookmark.folderId ranges over 0..MaxFolderId
MaxFolderId == 1
\* the retries argument of a call of withRetry ranges over 0..MaxRetries
MaxRetries == 1
\* number of calls of withRetry that can be in flight together
NumCalls == 2
\* number of keys one record is split into ranges over 1..MaxChunks
MaxChunks == 2

(***************************************************************************)
(* JS values                                                               *)
(***************************************************************************)
\* the value of a missing argument, a missing key read as an object
Undefined == [undefined |-> TRUE]

EmptyObject == [k \in {} |-> TRUE]

\* the objects that own key k with one of vals, or do not own it
Field(k, vals) == {EmptyObject} \cup {k :> v : v \in vals}

Has(obj, k) == k \in DOMAIN obj

\* obj[k] for an object-valued key
Get(obj, k) == IF Has(obj, k) THEN obj[k] ELSE Undefined

\* truthiness of obj[k] for string-, number- and object-valued keys
TruthyString(obj, k) == Has(obj, k) /\ obj[k] # ""
TruthyNumber(obj, k) == Has(obj, k) /\ obj[k] # 0
TruthyObject(obj, k) == Has(obj, k)

\* Object.assign(target, source): the keys of source override those of target
ObjectAssign(target, source) == source @@ target

(***************************************************************************)
(* Records (spec section 3) and the inputs of resolve                      *)
(***************************************************************************)
Actions == {"CREATE", "UPDATE", "DELETE"}
\* action values a caller can pass, one of them outside proto.actions
ActionValues == Actions \cup {"INVALID"}

ObjectDataValues ==
  {"bookmark", "historySite", "siteSetting", "device", "other"}

Clock == (MaxTime + 1) .. (MaxTime + 1 + MaxTick)

Sites ==
  { a @@ b @@ c @@ d @@ e :
      a \in Field("location", {"", "https://jisho.org"}),
      b \in Field("title", {"jisho"}),
      c \in Field("customTitle", {"", "pyramid"}),
      d \in Field("lastAccessedTime", 0 .. MaxTime),
      e \in Field("creationTime", {MaxTime}) }

Bookmarks ==
  { s @@ f @@ i :
      s \in Field("site", Sites),
      f \in Field("folderId", 0 .. MaxFolderId),
      i \in Field("isFolder", BOOLEAN) }

SiteSettings ==
  { h @@ n :
      h \in Field("hostPattern", {"", "https?://soundcloud.com"}),
      n \in Field("noScript", {FALSE}) }

Devices == Field("name", {"mobile pyramid"})

Payloads(objectData) ==
  CASE objectData = "bookmark" -> Bookmarks
    [] objectData = "historySite" -> Sites
    [] objectData = "siteSetting" -> SiteSettings
    [] objectData = "device" -> Devices
    [] OTHER -> {EmptyObject}

BaseProps(action, objectData) ==
  [action |-> action, deviceId |-> "device0", objectId |-> "uuid1",
   objectData |-> objectData]

\* the records a caller can pass: with the payload named by objectData, or
\* without it (invalid by the data model, but constructible in JS)
Records ==
  UNION { { BaseProps(a, od) @@ p :
              a \in ActionValues,
              p \in {EmptyObject} \cup {od :> x : x \in Payloads(od)} } :
          od \in ObjectDataValues }

\* payloads of locally known objects that differ from most incoming ones
SamplePayload(objectData) ==
  CASE objectData = "bookmark" ->
         [site |-> [location |-> "https://www.jisho.org", title |-> "jisho"],
          isFolder |-> FALSE]
    [] objectData = "historySite" -> EmptyObject
    [] objectData = "siteSetting" -> [hostPattern |-> "https?://soundcloud.com"]
    [] objectData = "device" -> [name |-> "mobile pyramid"]
    [] OTHER -> EmptyObject

\* the locally known objects a caller can pass along with rec: none, one with
\* rec's payload, one of rec's type with another payload, one of another type
ExistingObjects(rec) ==
  IF rec = Undefined THEN {Undefined}
  ELSE {Undefined}
       \cup {BaseProps("CREATE", rec.objectData) @@ (rec.objectData :> x) :
               x \in {SamplePayload(rec.objectData)}
                     \cup (IF Has(rec, rec.objectData)
                           THEN {rec[rec.objectData]} ELSE {})}
       \cup {BaseProps("CREATE", od) @@ (od :> SamplePayload(od)) :
               od \in {"historySite"} \ {rec.objectData}}

(***************************************************************************)
(* recordUtil                                                              *)
(***************************************************************************)
\* what a call does: kind is "throw", "null" (returns null) or "record"
\* (returns the record object it was passed); record is the content of that
\* record object when the call ends
Outcome(kind, rec) == [kind |-> kind, record |-> rec]

\* valueEquals that finds no two payloads equal
valueEquals_NeverEqual(a, b) == FALSE

\* lib/valueEquals: deep equality of two decoded payload trees
valueEquals(a, b) == a = b

\* createSitePropsFromUpdateSite whose defaults replace the properties of
\* the site
createSitePropsFromUpdateSite_DefaultsWin(site, now1, now2) ==
  LET defaultProps ==
        [title |-> "",
         lastAccessedTime |-> now1,
         creationTime |-> now2]
        @@ (IF Has(site, "location") THEN "customTitle" :> site.location
            ELSE EmptyObject)
  IN ObjectAssign(ObjectAssign(EmptyObject, site), defaultProps)

createSitePropsFromUpdateSite(site, now1, now2) ==
  LET defaultProps ==
        [title |-> "",
         lastAccessedTime |-> now1,
         creationTime |-> now2]
        @@ (IF Has(site, "location") THEN "customTitle" :> site.location
            ELSE EmptyObject)
  IN ObjectAssign(ObjectAssign(EmptyObject, defaultProps), site)

\* isValidBookmark that accepts a customTitle without a folderId
isValidBookmark_NoFolderCheck(rec) ==
  /\ TruthyObject(rec.bookmark, "site")
  /\ \/ TruthyString(rec.bookmark.site, "location")
     \/ TruthyString(rec.bookmark.site, "customTitle")

isValidBookmark(rec) ==
  /\ TruthyObject(rec.bookmark, "site")
  /\ \/ TruthyString(rec.bookmark.site, "location")
     \/ /\ TruthyString(rec.bookmark.site, "customTitle")
        /\ TruthyNumber(rec.bookmark, "folderId")
        /\ rec.bookmark.folderId > 0

\* mapBookmark that sets isFolder whatever the bookmark carries
mapBookmark_SetIsFolder(bookmark, now1, now2) ==
  IF TruthyNumber(bookmark, "folderId") /\ bookmark.folderId > 0
  THEN ObjectAssign(bookmark, [isFolder |-> TRUE])
  ELSE LET site == createSitePropsFromUpdateSite(bookmark.site, now1, now2)
       IN ObjectAssign(ObjectAssign(EmptyObject, bookmark),
                       [isFolder |-> FALSE, site |-> site])

mapBookmark(bookmark, now1, now2) ==
  IF TruthyNumber(bookmark, "folderId") /\ bookmark.folderId > 0
  THEN ObjectAssign([isFolder |-> TRUE], bookmark)
  ELSE LET defaultProps == [isFolder |-> FALSE]
           site == createSitePropsFromUpdateSite(bookmark.site, now1, now2)
       IN ObjectAssign(ObjectAssign(ObjectAssign(EmptyObject, defaultProps),
                                    bookmark),
                       [site |-> site])

isValidHistorySite(rec) == TruthyString(rec.historySite, "location")

isValidSiteSetting(rec) == TruthyString(rec.siteSetting, "hostPattern")

mapSiteSetting(siteSetting, now1, now2) == siteSetting

\* the isValidRecord argument that CreateFromUpdate was given for type
isValidRecord(type, rec) ==
  CASE type = "bookmark" -> isValidBookmark(rec)
    [] type = "historySite" -> isValidHistorySite(rec)
    [] type = "siteSetting" -> isValidSiteSetting(rec)

\* the mapUpdateToCreate argument that CreateFromUpdate was given for type
mapUpdateToCreate(type, props, now1, now2) ==
  CASE type = "bookmark" -> mapBookmark(props, now1, now2)
    [] type = "historySite" -> createSitePropsFromUpdateSite(props, now1, now2)
    [] type = "siteSetting" -> mapSiteSetting(props, now1, now2)

\* CreateFromUpdate that assigns the new properties and leaves the action
CreateFromUpdate_KeepsAction(type, rec, now1, now2) ==
  IF ~TruthyObject(rec, type) THEN Outcome("throw", rec)
  ELSE IF ~isValidRecord(type, rec) THEN Outcome("null", rec)
  ELSE LET resolvedTypeProps == mapUpdateToCreate(type, rec[type], now1, now2)
       IN Outcome("record", ObjectAssign(rec, type :> resolvedTypeProps))

\* CreateFromUpdate that builds the result from the new properties alone
CreateFromUpdate_FreshObject(type, rec, now1, now2) ==
  IF ~TruthyObject(rec, type) THEN Outcome("throw", rec)
  ELSE IF ~isValidRecord(type, rec) THEN Outcome("null", rec)
  ELSE LET resolvedTypeProps == mapUpdateToCreate(type, rec[type], now1, now2)
       IN Outcome("record",
                  ObjectAssign(EmptyObject,
                               [action |-> "CREATE"]
                               @@ (type :> resolvedTypeProps)))

\* the function CreateFromUpdate(type, isValidRecord, mapUpdateToCreate)
\* returns, applied to rec
CreateFromUpdate(type, rec, now1, now2) ==
  IF ~TruthyObject(rec, type) THEN Outcome("throw", rec)
  ELSE IF ~isValidRecord(type, rec) THEN Outcome("null", rec)
  ELSE LET resolvedTypeProps == mapUpdateToCreate(type, rec[type], now1, now2)
       IN Outcome("record",
                  ObjectAssign(rec, [action |-> "CREATE"]
                                    @@ (type :> resolvedTypeProps)))

createFromUpdateBookmark(rec, now1, now2) ==
  CreateFromUpdate("bookmark", rec, now1, now2)

createFromUpdateHistorySite(rec, now1, now2) ==
  CreateFromUpdate("historySite", rec, now1, now2)

createFromUpdateSiteSetting(rec, now1, now2) ==
  CreateFromUpdate("siteSetting", rec, now1, now2)

\* createFromUpdate that throws for an objectData it has no case for
createFromUpdate_ThrowOnUnknown(rec, now1, now2) ==
  IF rec = Undefined \/ rec.action # "UPDATE" THEN Outcome("throw", rec)
  ELSE CASE rec.objectData = "bookmark" ->
              createFromUpdateBookmark(rec, now1, now2)
         [] rec.objectData = "historySite" ->
              createFromUpdateHistorySite(rec, now1, now2)
         [] rec.objectData = "siteSetting" ->
              createFromUpdateSiteSetting(rec, now1, now2)
         [] OTHER -> Outcome("throw", rec)

createFromUpdate(rec, now1, now2) ==
  IF rec = Undefined \/ rec.action # "UPDATE" THEN Outcome("throw", rec)
  ELSE CASE rec.objectData = "bookmark" ->
              createFromUpdateBookmark(rec, now1, now2)
         [] rec.objectData = "historySite" ->
              createFromUpdateHistorySite(rec, now1, now2)
         [] rec.objectData = "siteSetting" ->
              createFromUpdateSiteSetting(rec, now1, now2)
         [] OTHER -> Outcome("null", rec)

\* resolveCreate without the check for an existing object
resolveCreate_NoDuplicateCheck(rec, existing) == Outcome("record", rec)

\* case proto.actions.CREATE of resolve
resolveCreate(rec, existing) ==
  IF existing # Undefined THEN Outcome("null", rec)
  ELSE Outcome("record", rec)

\* resolveUpdate without the comparison of the two payloads
resolveUpdate_NoComparison(rec, existing, now1, now2) ==
  IF existing # Undefined THEN Outcome("record", rec)
  ELSE createFromUpdate(rec, now1, now2)

\* case proto.actions.UPDATE of resolve
resolveUpdate(rec, existing, now1, now2) ==
  IF existing # Undefined
  THEN IF valueEquals(Get(rec, rec.objectData),
                      Get(existing, existing.objectData))
       THEN Outcome("null", rec)
       ELSE Outcome("record", rec)
  ELSE createFromUpdate(rec, now1, now2)

\* resolveDelete that propagates the tombstone whatever is known locally
resolveDelete_AlwaysPropagate(rec, existing) == Outcome("record", rec)

\* case proto.actions.DELETE of resolve
resolveDelete(rec, existing) ==
  IF existing # Undefined THEN Outcome("record", rec)
  ELSE Outcome("null", rec)

\* resolve that ignores a record with an action it has no case for
resolve_IgnoreUnknownAction(rec, existing, now1, now2) ==
  IF rec = Undefined THEN Outcome("throw", rec)
  ELSE CASE rec.action = "CREATE" -> resolveCreate(rec, existing)
         [] rec.action = "UPDATE" -> resolveUpdate(rec, existing, now1, now2)
         [] rec.action = "DELETE" -> resolveDelete(rec, existing)
         [] OTHER -> Outcome("null", rec)

resolve(rec, existing, now1, now2) ==
  IF rec = Undefined THEN Outcome("throw", rec)
  ELSE CASE rec.action = "CREATE" -> resolveCreate(rec, existing)
         [] rec.action = "UPDATE" -> resolveUpdate(rec, existing, now1, now2)
         [] rec.action = "DELETE" -> resolveDelete(rec, existing)
         [] OTHER -> Outcome("throw", rec)

(***************************************************************************)
(* requestUtil: errors, credentials                                        *)
(***************************************************************************)
Calls == 1 .. NumCalls

\* the retries argument withRetry takes when the caller passes none
DefaultRetries == 1

\* the texts EXPIRED_CREDENTIAL_ERRORS matches; a message is the sequence of
\* the texts it was concatenated from
EXPIRED_CREDENTIAL_ERRORS ==
  {"The provided token has expired.",
   "Invalid according to Policy: Policy expired."}

NoError == [none |-> TRUE]

\* the responses a fetch of an operation can resolve with
Responses ==
  { [status |-> 200, statusText |-> "OK"],
    [status |-> 403, statusText |-> "Forbidden"] }

\* the texts response.text() can resolve with
Bodies == {"Invalid according to Policy: Policy expired.", "AccessDenied"}

\* checkFetchStatus(response) of attempt n: returns the response, or throws
\* an error that carries it
checkFetchStatus(response, n) ==
  IF response.status >= 200 /\ response.status < 300
  THEN [kind |-> "return", value |-> response]
  ELSE [kind |-> "throw",
        value |-> [attempt |-> n, message |-> <<response.statusText>>,
                   response |-> TRUE]]

\* the errors attempt n of an operation can fail with: those of the S3
\* client and of a failed connection, and those checkFetchStatus throws
AttemptErrors(n) ==
  { [attempt |-> n, message |-> <<m>>, response |-> FALSE] :
      m \in {"The provided token has expired.", "NetworkingError"} }
  \cup { checkFetchStatus(r, n).value :
           r \in {x \in Responses : checkFetchStatus(x, n).kind = "throw"} }

\* isExpiredCredentialError that takes every error for an expired credential
isExpiredCredentialError_Always(error) == TRUE

isExpiredCredentialError(error) ==
  \E i \in DOMAIN error.message : error.message[i] \in EXPIRED_CREDENTIAL_ERRORS

\* error.message = error.message.concat(body)
ConcatBody(error, body) ==
  [error EXCEPT !.message = error.message \o <<body>>]

\* a credential that was never saved
Unset == <<>>

NoCredentials ==
  [s3 |-> Unset, postData |-> Unset, expiration |-> Unset, bucket |-> Unset,
   region |-> Unset, s3PostEndpoint |-> Unset]

\* the parsed bodies the credential server can answer with: bundle id with
\* its four parts, or with one of them missing
Bundles(id) ==
  { [k \in {"aws", "s3Post", "region", "bucket"} \ missing |-> id] :
      missing \in {{}, {"aws"}, {"s3Post"}, {"region"}, {"bucket"}} }

\* parseAWSResponse that accepts a body without a region
parseAWSResponse_NoRegionCheck(parsedBody) ==
  IF ~Has(parsedBody, "aws") THEN [kind |-> "throw"]
  ELSE IF ~Has(parsedBody, "s3Post") THEN [kind |-> "throw"]
  ELSE IF ~Has(parsedBody, "bucket") THEN [kind |-> "throw"]
  ELSE LET region == IF Has(parsedBody, "region") THEN parsedBody.region
                     ELSE Unset
       IN [kind |-> "return",
           s3 |-> <<parsedBody.aws, region>>,
           postData |-> parsedBody.s3Post,
           expiration |-> parsedBody.aws,
           bucket |-> parsedBody.bucket,
           region |-> region]

\* parseAWSResponse(bytes), parsedBody being the decoded bytes
parseAWSResponse(parsedBody) ==
  IF ~Has(parsedBody, "aws") THEN [kind |-> "throw"]
  ELSE IF ~Has(parsedBody, "s3Post") THEN [kind |-> "throw"]
  ELSE IF ~Has(parsedBody, "region") THEN [kind |-> "throw"]
  ELSE IF ~Has(parsedBody, "bucket") THEN [kind |-> "throw"]
  ELSE [kind |-> "return",
        s3 |-> <<parsedBody.aws, parsedBody.region>>,
        postData |-> parsedBody.s3Post,
        expiration |-> parsedBody.aws,
        bucket |-> parsedBody.bucket,
        region |-> parsedBody.region]

\* the fields of the RequestUtil after saveAWSCredentials(parsedResponse)
saveAWSCredentials(parsedResponse) ==
  [s3 |-> parsedResponse.s3,
   postData |-> parsedResponse.postData,
   expiration |-> parsedResponse.expiration,
   bucket |-> parsedResponse.bucket,
   region |-> parsedResponse.region,
   s3PostEndpoint |-> <<parsedResponse.bucket, parsedResponse.region>>]

\* the bundle the constructor is given as opts.credentialsBytes
InitialBundle == [k \in {"aws", "s3Post", "region", "bucket"} |-> <<0, 0>>]

\* withRetryEntry that retries whatever the previous error was
withRetryEntry_RetryAnyError(retries, previousError) ==
  IF retries < 0 THEN "throw"
  ELSE IF previousError # NoError
       THEN IF ~isExpiredCredentialError(previousError) THEN "callMyFun"
            ELSE "refresh"
       ELSE "callMyFun"

\* withRetryEntry that retries without a refresh of the credentials
withRetryEntry_NoRefresh(retries, previousError) ==
  IF retries < 0 THEN "throw"
  ELSE IF previousError # NoError
       THEN IF ~isExpiredCredentialError(previousError) THEN "throw"
            ELSE "callMyFun"
       ELSE "callMyFun"

\* withRetryEntry that allows one attempt more than the budget
withRetryEntry_OneMore(retries, previousError) ==
  IF retries < -1 THEN "throw"
  ELSE IF previousError # NoError
       THEN IF ~isExpiredCredentialError(previousError) THEN "throw"
            ELSE "refresh"
       ELSE "callMyFun"

\* what withRetry(myFun, retries, previousError) does first: "throw"
\* previousError (so that the call fails with it), "refresh" the credentials
\* and call myFun afterwards, or "callMyFun" at once
withRetryEntry(retries, previousError) ==
  IF retries < 0 THEN "throw"
  ELSE IF previousError # NoError
       THEN IF ~isExpiredCredentialError(previousError) THEN "throw"
            ELSE "refresh"
       ELSE "callMyFun"

\* retryArgument that keeps the error of the first failed attempt
retryArgument_FirstError(previous, caught) ==
  IF previous # NoError THEN previous ELSE caught

\* the previousError argument of the call of withRetry in retry(): the error
\* the catch callback was given, not the previousError of the enclosing call
retryArgument(previous, caught) == caught

(***************************************************************************)
(* requestUtil: put                                                        *)
(***************************************************************************)
\* a string is the sequence of its parts; the parts of a category name are
\* its characters
apiVersion == <<"0">>

userId == <<"user">>

\* category ids, one of them the beginning of the other
Categories == {<<"1">>, <<"1", "0">>}

\* the record bytes put is given: one part for every key they need
RecordBytes ==
  UNION { [1 .. n -> {"bytes"}] : n \in 1 .. MaxChunks }

\* `${this.apiVersion}/${this.userId}/${category}/${getTime()}/`, time being
\* what getTime() returns
currentRecordPrefix(category, time) ==
  apiVersion \o <<"/">> \o userId \o <<"/">> \o category
    \o <<"/", ToString(time), "/">>

\* s3Helper.encodeDataToS3KeyArray(s3Prefix, record): one key for each part
\* of the record, under the prefix
encodeDataToS3KeyArray(s3Prefix, recordBytes) ==
  [i \in 1 .. Len(recordBytes) |-> s3Prefix \o <<ToString(i - 1), recordBytes[i]>>]

\* uploadedKeys that computes the keys again in every attempt
uploadedKeys_Recomputed(captured, recomputed) == recomputed

\* the keys the function put passes to withRetry maps over: the s3Keys the
\* closure captured, not keys computed when the attempt is made
uploadedKeys(captured, recomputed) == captured

\* a fetch that was not settled yet
Pending == [pending |-> TRUE]

\* the outcomes of the fetch of one upload: a response, or a rejection
NetworkFailure == [rejected |-> TRUE]

UploadOutcomes == Responses \cup {NetworkFailure}

\* the upload was answered with a 2xx response
Uploaded(outcome) ==
  /\ outcome \in Responses
  /\ checkFetchStatus(outcome, 0).kind = "return"

\* the upload was answered otherwise, or not at all
UploadFailed(outcome) ==
  /\ outcome \in UploadOutcomes
  /\ ~Uploaded(outcome)

\* promiseAll that waits for every promise and is fulfilled whatever they
\* were settled with
promiseAll_AllSettled(outcomes) ==
  IF \A i \in DOMAIN outcomes : outcomes[i] \in UploadOutcomes THEN "fulfilled"
  ELSE "pending"

\* Promise.all(fetchPromises), outcomes being what the promises were settled
\* with so far (Pending for those that were not)
promiseAll(outcomes) ==
  IF \E i \in DOMAIN outcomes : UploadFailed(outcomes[i]) THEN "rejected"
  ELSE IF \A i \in DOMAIN outcomes : Uploaded(outcomes[i]) THEN "fulfilled"
  ELSE "pending"

(***************************************************************************)
(* requestUtil: list, deleteUser, deleteCategory                           *)
(***************************************************************************)
\* the userId of another user of the bucket
otherUserId == <<"other">>

\* `${this.apiVersion}/${this.userId}/${category}` of list and deleteCategory
categoryPrefix(category) ==
  apiVersion \o <<"/">> \o userId \o <<"/">> \o category

\* `${this.apiVersion}/${this.userId}` of deleteUser
userPrefix == apiVersion \o <<"/">> \o userId

\* the string key begins with the string prefix
StartsWith(key, prefix) ==
  /\ Len(prefix) <= Len(key)
  /\ SubSeq(key, 1, Len(prefix)) = prefix

\* the objects in the bucket before any deletion: one record of every
\* category of this user and of another user, under the key layout
\* {apiVersion}/{userId}/{category}/{timestamp}/{chunk}
InitialStore ==
  { [userId |-> u, category |-> c,
     key |-> apiVersion \o <<"/">> \o u \o <<"/">> \o c
               \o <<"/", ToString(MaxTime + 1), "/", "0", "bytes">>] :
      u \in {userId, otherUserId}, c \in Categories }

\* s3Helper.deletePrefix(s3, bucket, prefix): lists the keys that begin with
\* the prefix and deletes them all; what is left of the objects
deletePrefix(objects, prefix) ==
  { o \in objects : ~StartsWith(o.key, prefix) }

\* the startAt arguments of list: none, or a timestamp
StartAts == {0, MaxTime + 1}

\* the options list builds before it calls withRetry, bucket being
\* this.bucket at that time
listOptions(category, startAt, bucket) ==
  LET prefix == categoryPrefix(category)
      options == [MaxKeys |-> 1000, Bucket |-> bucket, Prefix |-> prefix]
  IN IF startAt # 0
     THEN options @@ [StartAfter |-> prefix \o <<"/", ToString(startAt)>>]
     ELSE options

\* the credential-derived arguments of the call an attempt of op makes, s3
\* and bucket being this.s3 and this.bucket when the attempt is made:
\* s3Helper.listObjects(this.s3, options) for list and
\* s3Helper.deletePrefix(this.s3, this.bucket, prefix) for a deletion
requestArguments(op, s3, bucket) ==
  IF op.kind = "list" THEN [s3 |-> s3, bucket |-> op.options.Bucket]
  ELSE [s3 |-> s3, bucket |-> bucket]

(***************************************************************************)
(* State                                                                   *)
(***************************************************************************)
VARIABLES
  record,          \* the record passed to resolve, as it was at the call
  existingObject,  \* the existing object passed to resolve, or Undefined
  recordNow,       \* the content of the record object now
  existingNow,     \* the content of the existing object now
  resolved,        \* "pending" before the call, then the kind of its outcome
  now,             \* the two values Date.now() returned during the call
  again,           \* "pending", then the kind of the outcome of resolving a
                   \* record identical to the first with the result as existing
  credentials,     \* s3, postData, expiration, bucket, region, s3PostEndpoint
  pc,              \* per call of withRetry: what its promise is waiting for
  budget,          \* the retries argument the callers pass to withRetry
  retries,         \* per call: the retries argument of the innermost withRetry
  attempts,        \* per call: how many times myFun was called
  refreshStarted,  \* per call: how many times refreshAWSCredentials was called
  refreshDone,     \* per call: how many of these saved new credentials
  previousError,   \* per call: previousError of the innermost withRetry
  error,           \* per call: the error the catch callback was given last
  failures,        \* per call: how many attempts failed
  expiredFailures, \* per call: how many of them with an expired credential
  settled,         \* per call: how many times its promise was settled
  value,           \* per call: what its promise was resolved or rejected with
  clock,           \* what getTime() returns now
  putArgs,         \* the arguments of the call of put, and the time of the call
  s3Keys,          \* the s3Keys of the call of put
  requests,        \* per attempt of the put: the request of each fetch
  uploads,         \* per attempt of the put: the outcome of each fetch
  operation,       \* per call: the list or deletion that called withRetry
  sent,            \* per call and attempt: the arguments of its request
  store            \* the objects in the bucket

resolveVars ==
  <<record, existingObject, recordNow, existingNow, resolved, now, again>>

callVars ==
  <<pc, retries, attempts, refreshStarted, refreshDone, previousError,
    error, failures, expiredFailures, settled, value>>

retryVars == <<credentials, budget, callVars>>

putVars == <<clock, putArgs, s3Keys, requests, uploads>>

requestVars == <<operation, sent, store>>

vars == <<resolveVars, retryVars, putVars, requestVars>>

NoValue == [none |-> TRUE]

\* no record was passed to resolve yet
ResolveIdle ==
  /\ record = Undefined
  /\ existingObject = Undefined
  /\ recordNow = Undefined
  /\ existingNow = Undefined
  /\ resolved = "pending"
  /\ now = <<>>
  /\ again = "pending"

\* withRetry was not called yet
CallsIdle ==
  /\ pc = [c \in Calls |-> "idle"]
  /\ retries = [c \in Calls |-> 0]
  /\ attempts = [c \in Calls |-> 0]
  /\ refreshStarted = [c \in Calls |-> 0]
  /\ refreshDone = [c \in Calls |-> 0]
  /\ previousError = [c \in Calls |-> NoError]
  /\ error = [c \in Calls |-> NoError]
  /\ failures = [c \in Calls |-> 0]
  /\ expiredFailures = [c \in Calls |-> 0]
  /\ settled = [c \in Calls |-> 0]
  /\ value = [c \in Calls |-> NoValue]

\* put was not called yet
PutIdle ==
  /\ clock = MaxTime + 1
  /\ putArgs = NoValue
  /\ s3Keys = <<>>
  /\ requests = <<>>
  /\ uploads = <<>>

\* neither list nor a deletion was called yet
RequestIdle ==
  /\ operation = [c \in Calls |-> NoValue]
  /\ sent = [c \in Calls |-> <<>>]
  /\ store = InitialStore

(***************************************************************************)
(* resolve, called once on inputs drawn from the bounded sets              *)
(***************************************************************************)
InitResolve ==
  /\ record \in Records \cup {Undefined}
  /\ existingObject \in ExistingObjects(record)
  /\ recordNow = record
  /\ existingNow = existingObject
  /\ resolved = "pending"
  /\ now = <<>>
  /\ again = "pending"
  /\ credentials = NoCredentials
  /\ budget = DefaultRetries
  /\ CallsIdle
  /\ PutIdle
  /\ RequestIdle

\* one call resolve(record, existingObject); the clock may advance between
\* the two Date.now() reads of createSitePropsFromUpdateSite
Resolve ==
  /\ resolved = "pending"
  /\ \E now1 \in Clock, now2 \in Clock :
       /\ now1 <= now2
       /\ LET out == resolve(recordNow, existingNow, now1, now2) IN
            /\ resolved' = out.kind
            /\ recordNow' = out.record
            /\ now' = <<now1, now2>>
  /\ UNCHANGED <<record, existingObject, existingNow, again, retryVars,
                 putVars, requestVars>>

\* the caller takes the record that resolve returned as the existing object
\* and calls resolve on an incoming record identical to the first
ResolveAgain ==
  /\ resolved = "record"
  /\ again = "pending"
  /\ again' = resolve(record, recordNow, now[1], now[2]).kind
  /\ UNCHANGED <<record, existingObject, recordNow, existingNow, resolved, now,
                 retryVars, putVars, requestVars>>

NextResolve ==
  \/ Resolve
  \/ ResolveAgain

ResolveSpec == InitResolve /\ [][NextResolve]_vars

(***************************************************************************)
(* withRetry: one action per callback                                      *)
(***************************************************************************)
\* the RequestUtil as its constructor leaves it, with or without
\* opts.credentialsBytes; list, put and s3DeletePrefix pass the same retries
\* argument (none, which is DefaultRetries) to withRetry
InitRetry ==
  /\ ResolveIdle
  /\ budget \in 0 .. MaxRetries
  /\ credentials \in {NoCredentials,
                      saveAWSCredentials(parseAWSResponse(InitialBundle))}
  /\ CallsIdle
  /\ PutIdle
  /\ RequestIdle

\* reject(e) of the promise the caller holds
Reject(c, e) ==
  /\ pc' = [pc EXCEPT ![c] = "rejected"]
  /\ settled' = [settled EXCEPT ![c] = @ + 1]
  /\ value' = [value EXCEPT ![c] = e]

\* retry() in the catch callback: withRetry(myFun, retries - 1, e) and the
\* callbacks that pass its outcome on to the promise the caller holds
Retry(c, e) ==
  LET argument == retryArgument(previousError[c], e)
      entry == withRetryEntry(retries[c] - 1, argument)
  IN
    /\ error' = [error EXCEPT ![c] = e]
    /\ failures' = [failures EXCEPT ![c] = @ + 1]
    /\ expiredFailures' =
         [expiredFailures EXCEPT
            ![c] = IF isExpiredCredentialError(e) THEN @ + 1 ELSE @]
    /\ CASE entry = "throw" ->
              /\ Reject(c, argument)
              /\ UNCHANGED <<retries, attempts, refreshStarted, previousError>>
         [] entry = "refresh" ->
              /\ pc' = [pc EXCEPT ![c] = "refresh"]
              /\ retries' = [retries EXCEPT ![c] = @ - 1]
              /\ previousError' = [previousError EXCEPT ![c] = argument]
              /\ refreshStarted' = [refreshStarted EXCEPT ![c] = @ + 1]
              /\ UNCHANGED <<attempts, settled, value>>
         [] entry = "callMyFun" ->
              /\ pc' = [pc EXCEPT ![c] = "attempt"]
              /\ retries' = [retries EXCEPT ![c] = @ - 1]
              /\ previousError' = [previousError EXCEPT ![c] = argument]
              /\ attempts' = [attempts EXCEPT ![c] = @ + 1]
              /\ UNCHANGED <<refreshStarted, settled, value>>

\* a caller calls withRetry(myFun, budget); the executor calls myFun
Call(c) ==
  /\ pc[c] = "idle"
  /\ withRetryEntry(budget, NoError) = "callMyFun"
  /\ pc' = [pc EXCEPT ![c] = "attempt"]
  /\ retries' = [retries EXCEPT ![c] = budget]
  /\ attempts' = [attempts EXCEPT ![c] = 1]
  /\ UNCHANGED <<resolveVars, requestVars, putVars, credentials, budget, refreshStarted,
                 refreshDone, previousError, error, failures, expiredFailures,
                 settled, value>>

\* the promise of myFun() is fulfilled: resolve(...args)
AttemptResolve(c) ==
  /\ pc[c] = "attempt"
  /\ pc' = [pc EXCEPT ![c] = "resolved"]
  /\ settled' = [settled EXCEPT ![c] = @ + 1]
  /\ value' = [value EXCEPT ![c] = [attempt |-> attempts[c]]]
  /\ UNCHANGED <<resolveVars, requestVars, putVars, credentials, budget, retries, attempts,
                 refreshStarted, refreshDone, previousError, error, failures,
                 expiredFailures>>

\* the promise of myFun() is rejected with e: the catch callback reads the
\* body of e.response when e has one, and calls retry() otherwise
AttemptReject(c, e) ==
  /\ pc[c] = "attempt"
  /\ IF e.response
     THEN /\ pc' = [pc EXCEPT ![c] = "text"]
          /\ error' = [error EXCEPT ![c] = e]
          /\ UNCHANGED <<retries, attempts, refreshStarted, previousError,
                         failures, expiredFailures, settled, value>>
     ELSE Retry(c, e)
  /\ UNCHANGED <<resolveVars, requestVars, putVars, credentials, budget, refreshDone>>

\* error.response.text() is fulfilled with body
TextResolve(c, body) ==
  /\ pc[c] = "text"
  /\ Retry(c, ConcatBody(error[c], body))
  /\ UNCHANGED <<resolveVars, requestVars, putVars, credentials, budget, refreshDone>>

\* error.response.text() is rejected: no callback was registered for that
TextReject(c) ==
  /\ pc[c] = "text"
  /\ pc' = [pc EXCEPT ![c] = "abandoned"]
  /\ UNCHANGED <<resolveVars, requestVars, putVars, credentials, budget, retries, attempts,
                 refreshStarted, refreshDone, previousError, error, failures,
                 expiredFailures, settled, value>>

\* the fetch of refreshAWSCredentials is fulfilled: with response.ok the
\* body is read, otherwise the callback throws and withRetry has registered
\* no callback for the rejection
RefreshFetchResolve(c, ok) ==
  /\ pc[c] = "refresh"
  /\ pc' = [pc EXCEPT ![c] = IF ok THEN "arrayBuffer" ELSE "abandoned"]
  /\ UNCHANGED <<resolveVars, requestVars, putVars, credentials, budget, retries, attempts,
                 refreshStarted, refreshDone, previousError, error, failures,
                 expiredFailures, settled, value>>

\* the fetch of refreshAWSCredentials, or the read of its body, is rejected
RefreshReject(c) ==
  /\ pc[c] \in {"refresh", "arrayBuffer"}
  /\ pc' = [pc EXCEPT ![c] = "abandoned"]
  /\ UNCHANGED <<resolveVars, requestVars, putVars, credentials, budget, retries, attempts,
                 refreshStarted, refreshDone, previousError, error, failures,
                 expiredFailures, settled, value>>

\* response.arrayBuffer() is fulfilled: parseAWSResponse throws, or its
\* result is saved and the promise of refreshAWSCredentials is fulfilled
RefreshParse(c, parsedBody) ==
  /\ pc[c] = "arrayBuffer"
  /\ LET parsed == parseAWSResponse(parsedBody) IN
       IF parsed.kind = "throw"
       THEN /\ pc' = [pc EXCEPT ![c] = "abandoned"]
            /\ UNCHANGED <<credentials, refreshDone>>
       ELSE /\ credentials' = saveAWSCredentials(parsed)
            /\ refreshDone' = [refreshDone EXCEPT ![c] = @ + 1]
            /\ pc' = [pc EXCEPT ![c] = "refreshed"]
  /\ UNCHANGED <<resolveVars, requestVars, putVars, budget, retries, attempts, refreshStarted,
                 previousError, error, failures, expiredFailures,
                 settled, value>>

\* the callback of refreshAWSCredentials().then(callMyFun)
CallMyFun(c) ==
  /\ pc[c] = "refreshed"
  /\ pc' = [pc EXCEPT ![c] = "attempt"]
  /\ attempts' = [attempts EXCEPT ![c] = @ + 1]
  /\ UNCHANGED <<resolveVars, requestVars, putVars, credentials, budget, retries, refreshStarted,
                 refreshDone, previousError, error, failures,
                 expiredFailures, settled, value>>

\* the callbacks of call c that the event loop can run
Progress(c) ==
  \/ AttemptResolve(c)
  \/ \E e \in AttemptErrors(attempts[c]) : AttemptReject(c, e)
  \/ \E body \in Bodies : TextResolve(c, body)
  \/ TextReject(c)
  \/ \E ok \in BOOLEAN : RefreshFetchResolve(c, ok)
  \/ RefreshReject(c)
  \/ \E parsedBody \in Bundles(<<c, refreshStarted[c]>>) :
       RefreshParse(c, parsedBody)
  \/ CallMyFun(c)

NextRetry ==
  \E c \in Calls :
    \/ Call(c)
    \/ Progress(c)

RetrySpec == InitRetry /\ [][NextRetry]_vars

\* every promise the event loop waits for is settled at some point
FairRetrySpec == RetrySpec /\ \A c \in Calls : WF_vars(Progress(c))

(***************************************************************************)
(* put: one action per callback                                            *)
(***************************************************************************)
\* the call of withRetry that one call of put makes
Putter == 1

\* put passes no retries argument to withRetry
InitPut ==
  /\ ResolveIdle
  /\ budget = DefaultRetries
  /\ credentials \in {NoCredentials,
                      saveAWSCredentials(parseAWSResponse(InitialBundle))}
  /\ CallsIdle
  /\ PutIdle
  /\ RequestIdle

\* this.s3PostFormData(objectKey): Object.keys(this.postData) throws when no
\* credentials were saved
s3PostFormData(objectKey) ==
  IF credentials.postData = Unset THEN [kind |-> "throw"]
  ELSE [kind |-> "return",
        value |-> [key |-> objectKey, postData |-> credentials.postData]]

\* the function put passes to withRetry, up to Promise.all: the request of
\* one fetch for every key, made from the credentials held now
putFetches(keys) ==
  IF \E i \in DOMAIN keys : s3PostFormData(keys[i]).kind = "throw"
  THEN [kind |-> "throw"]
  ELSE [kind |-> "return",
        value |-> [i \in DOMAIN keys |->
                     [url |-> credentials.s3PostEndpoint,
                      body |-> s3PostFormData(keys[i]).value]]]

\* the s3Keys put would compute from its arguments at this time
keysNow(category, recordBytes) ==
  encodeDataToS3KeyArray(currentRecordPrefix(category, clock), recordBytes)

\* the error a fetch of attempt n is rejected with
FetchError(n) ==
  [attempt |-> n, message |-> <<"Failed to fetch">>, response |-> FALSE]

\* the error s3PostFormData throws in attempt n
PostDataError(n) ==
  [attempt |-> n, message |-> <<"TypeError">>, response |-> FALSE]

\* getTime() returns a later second
Tick ==
  /\ clock < MaxTime + 1 + MaxTick
  /\ clock' = clock + 1
  /\ UNCHANGED <<resolveVars, requestVars, retryVars, putArgs, s3Keys, requests, uploads>>

\* put(category, record): the prefix and the keys are computed, withRetry
\* is called and its executor calls the function for the first attempt
Put(category, recordBytes) ==
  /\ pc[Putter] = "idle"
  /\ withRetryEntry(budget, NoError) = "callMyFun"
  /\ LET keys == keysNow(category, recordBytes)
         fetches == putFetches(uploadedKeys(keys, keys))
     IN
       /\ putArgs' = [category |-> category, record |-> recordBytes,
                      time |-> clock]
       /\ s3Keys' = keys
       /\ retries' = [retries EXCEPT ![Putter] = budget]
       /\ attempts' = [attempts EXCEPT ![Putter] = 1]
       /\ IF fetches.kind = "throw"
          THEN /\ Reject(Putter, PostDataError(1))
               /\ UNCHANGED <<requests, uploads>>
          ELSE /\ pc' = [pc EXCEPT ![Putter] = "attempt"]
               /\ requests' = Append(requests, fetches.value)
               /\ uploads' = Append(uploads,
                                    [i \in DOMAIN fetches.value |-> Pending])
               /\ UNCHANGED <<settled, value>>
  /\ UNCHANGED <<resolveVars, requestVars, credentials, budget, refreshStarted,
                 refreshDone, previousError, error, failures, expiredFailures,
                 clock>>

\* the fetch of upload i of attempt a is settled with outcome, and
\* checkFetchStatus is applied to its response; when that settles the
\* Promise.all of the attempt, the callbacks of withRetry run
UploadSettle(a, i, outcome) ==
  /\ a \in DOMAIN uploads
  /\ i \in DOMAIN uploads[a]
  /\ uploads[a][i] = Pending
  /\ uploads' = [uploads EXCEPT ![a][i] = outcome]
  /\ LET before == promiseAll(uploads[a])
         after == promiseAll(uploads'[a])
         e == IF outcome \in Responses
              THEN checkFetchStatus(outcome, a).value
              ELSE FetchError(a)
     IN
       IF before = "pending" /\ after = "fulfilled"
       THEN /\ pc' = [pc EXCEPT ![Putter] = "resolved"]
            /\ settled' = [settled EXCEPT ![Putter] = @ + 1]
            /\ value' = [value EXCEPT ![Putter] = [attempt |-> a]]
            /\ UNCHANGED <<retries, attempts, refreshStarted, previousError,
                           error, failures, expiredFailures>>
       ELSE IF before = "pending" /\ after = "rejected"
       THEN IF e.response
            THEN /\ pc' = [pc EXCEPT ![Putter] = "text"]
                 /\ error' = [error EXCEPT ![Putter] = e]
                 /\ UNCHANGED <<retries, attempts, refreshStarted,
                                previousError, failures, expiredFailures,
                                settled, value>>
            ELSE Retry(Putter, e)
       ELSE UNCHANGED <<pc, retries, attempts, refreshStarted, previousError,
                        error, failures, expiredFailures, settled, value>>
  /\ UNCHANGED <<resolveVars, requestVars, credentials, budget, refreshDone, clock,
                 putArgs, s3Keys, requests>>

\* the callback of refreshAWSCredentials().then(callMyFun) of the put: the
\* function is called for the next attempt
PutCallMyFun ==
  /\ pc[Putter] = "refreshed"
  /\ attempts' = [attempts EXCEPT ![Putter] = @ + 1]
  /\ LET fetches ==
           putFetches(uploadedKeys(s3Keys,
                                   keysNow(putArgs.category, putArgs.record)))
     IN
       IF fetches.kind = "throw"
       THEN /\ pc' = [pc EXCEPT ![Putter] = "abandoned"]
            /\ UNCHANGED <<requests, uploads>>
       ELSE /\ pc' = [pc EXCEPT ![Putter] = "attempt"]
            /\ requests' = Append(requests, fetches.value)
            /\ uploads' = Append(uploads,
                                 [i \in DOMAIN fetches.value |-> Pending])
  /\ UNCHANGED <<resolveVars, requestVars, credentials, budget, retries, refreshStarted,
                 refreshDone, previousError, error, failures,
                 expiredFailures, settled, value, clock, putArgs, s3Keys>>

NextPut ==
  \/ Tick
  \/ \E category \in Categories, recordBytes \in RecordBytes :
       Put(category, recordBytes)
  \/ \E a \in DOMAIN uploads :
       \E i \in DOMAIN uploads[a], outcome \in UploadOutcomes :
         UploadSettle(a, i, outcome)
  \/ \E body \in Bodies : TextResolve(Putter, body)
  \/ TextReject(Putter)
  \/ \E ok \in BOOLEAN : RefreshFetchResolve(Putter, ok)
  \/ RefreshReject(Putter)
  \/ \E parsedBody \in Bundles(<<Putter, refreshStarted[Putter]>>) :
       RefreshParse(Putter, parsedBody)
  \/ PutCallMyFun

PutSpec == InitPut /\ [][NextPut]_vars

(***************************************************************************)
(* list, deleteUser and deleteCategory: one action per callback            *)
(***************************************************************************)
\* list and the deletions pass no retries argument to withRetry
InitRequest ==
  /\ ResolveIdle
  /\ budget = DefaultRetries
  /\ credentials \in {NoCredentials,
                      saveAWSCredentials(parseAWSResponse(InitialBundle))}
  /\ CallsIdle
  /\ PutIdle
  /\ RequestIdle

\* the error of a request that is made without an S3 client
NoClientError(n) ==
  [attempt |-> n, message |-> <<"TypeError">>, response |-> FALSE]

\* the call of withRetry of operation op as call c: the executor calls the
\* function for the first attempt, with the credentials held now; without
\* an S3 client no request is made and the call fails
StartRequest(c, op) ==
  /\ pc[c] = "idle"
  /\ withRetryEntry(budget, NoError) = "callMyFun"
  /\ operation' = [operation EXCEPT ![c] = op]
  /\ retries' = [retries EXCEPT ![c] = budget]
  /\ attempts' = [attempts EXCEPT ![c] = 1]
  /\ IF credentials.s3 = Unset
     THEN /\ Reject(c, NoClientError(1))
          /\ UNCHANGED sent
     ELSE /\ pc' = [pc EXCEPT ![c] = "attempt"]
          /\ sent' = [sent EXCEPT
                        ![c] = <<requestArguments(op, credentials.s3,
                                                  credentials.bucket)>>]
          /\ UNCHANGED <<settled, value>>
  /\ UNCHANGED <<resolveVars, putVars, store, credentials, budget,
                 refreshStarted, refreshDone, previousError, error, failures,
                 expiredFailures>>

\* list(category, startAt)
List(c, category, startAt) ==
  StartRequest(c, [kind |-> "list",
                   options |-> listOptions(category, startAt,
                                           credentials.bucket)])

\* deleteUser()
DeleteUser(c) ==
  StartRequest(c, [kind |-> "deleteUser", prefix |-> userPrefix])

\* deleteCategory(category)
DeleteCategory(c, category) ==
  StartRequest(c, [kind |-> "deleteCategory", category |-> category,
                   prefix |-> categoryPrefix(category)])

\* the request of the attempt succeeds: a deletion has deleted the keys
\* under its prefix, and resolve(...args)
RequestResolve(c) ==
  /\ pc[c] = "attempt"
  /\ operation[c] # NoValue
  /\ pc' = [pc EXCEPT ![c] = "resolved"]
  /\ settled' = [settled EXCEPT ![c] = @ + 1]
  /\ value' = [value EXCEPT ![c] = [attempt |-> attempts[c]]]
  /\ store' = IF operation[c].kind = "list" THEN store
              ELSE deletePrefix(store, operation[c].prefix)
  /\ UNCHANGED <<resolveVars, putVars, operation, sent, credentials, budget,
                 retries, attempts, refreshStarted, refreshDone,
                 previousError, error, failures, expiredFailures>>

\* the callback of refreshAWSCredentials().then(callMyFun) of a list or a
\* deletion: the function is called for the next attempt
RequestCallMyFun(c) ==
  /\ pc[c] = "refreshed"
  /\ operation[c] # NoValue
  /\ pc' = [pc EXCEPT ![c] = "attempt"]
  /\ attempts' = [attempts EXCEPT ![c] = @ + 1]
  /\ sent' = [sent EXCEPT
                ![c] = Append(@, requestArguments(operation[c], credentials.s3,
                                                  credentials.bucket))]
  /\ UNCHANGED <<resolveVars, putVars, operation, store, credentials, budget,
                 retries, refreshStarted, refreshDone, previousError, error,
                 failures, expiredFailures, settled, value>>

\* the call of withRetry that a list or a deletion makes
Requester == 1

\* a call of withRetry of another operation that is in flight beside it and
\* refreshes the credentials as well
Refresher == 2

NextRequest ==
  \/ \E category \in Categories, startAt \in StartAts :
       List(Requester, category, startAt)
  \/ DeleteUser(Requester)
  \/ \E category \in Categories : DeleteCategory(Requester, category)
  \/ RequestResolve(Requester)
  \/ \E e \in AttemptErrors(attempts[Requester]) : AttemptReject(Requester, e)
  \/ \E body \in Bodies : TextResolve(Requester, body)
  \/ TextReject(Requester)
  \/ \E ok \in BOOLEAN : RefreshFetchResolve(Requester, ok)
  \/ RefreshReject(Requester)
  \/ \E parsedBody \in Bundles(<<Requester, refreshStarted[Requester]>>) :
       RefreshParse(Requester, parsedBody)
  \/ RequestCallMyFun(Requester)
  \/ Call(Refresher)
  \/ Progress(Refresher)

RequestSpec == InitRequest /\ [][NextRequest]_vars

(***************************************************************************)
(* Properties of resolve                                                   *)
(***************************************************************************)
Called == resolved # "pending"

ExistingPresent == existingObject # Undefined

\* the record carries the payload its objectData names (spec section 3)
WellFormed == record # Undefined /\ Has(record, record.objectData)

HasAction(action) == record # Undefined /\ record.action = action

\* the call returned the record object it was passed, with its content intact
ReturnedUnchanged == resolved = "record" /\ recordNow = record

\* C1: for a record with action CREATE, resolve returns null if and only if
\* an existing object is present; without an existing object it returns the
\* record itself, unchanged.
C1_CreateResolution ==
  (Called /\ HasAction("CREATE")) =>
    /\ resolved = "null" <=> ExistingPresent
    /\ ~ExistingPresent => ReturnedUnchanged

C1_Witness ==
  Called /\ HasAction("CREATE") /\ ExistingPresent /\ resolved = "null"

\* C2: for a record with action DELETE, resolve returns the record itself,
\* unchanged, if and only if an existing object is present; without an
\* existing object it returns null.
C2_DeleteResolution ==
  (Called /\ HasAction("DELETE")) =>
    /\ ReturnedUnchanged <=> ExistingPresent
    /\ ~ExistingPresent => resolved = "null"

C2_Witness ==
  Called /\ HasAction("DELETE") /\ ExistingPresent /\ ReturnedUnchanged

\* C3: for a record with action UPDATE and an existing object of the same
\* objectData, resolve returns null if and only if the payload of the record
\* deep-equals the payload of the existing object; otherwise it returns the
\* record itself, unchanged.
C3_UpdateResolution ==
  (Called /\ HasAction("UPDATE") /\ ExistingPresent
     /\ existingObject.objectData = record.objectData) =>
    /\ resolved = "null" <=>
         Get(record, record.objectData) = Get(existingObject, record.objectData)
    /\ resolved # "null" => ReturnedUnchanged

C3_Witness ==
  /\ Called /\ HasAction("UPDATE") /\ ExistingPresent /\ WellFormed
  /\ existingObject.objectData = record.objectData
  /\ record[record.objectData] = existingObject[record.objectData]
  /\ resolved = "null"

\* the synthesized payload keeps every property the payload of the update
\* carried (for a bookmark: its own properties and those of its site)
KeepsProps(new, old) ==
  /\ DOMAIN old \subseteq DOMAIN new
  /\ \A k \in DOMAIN old \ {"site"} : new[k] = old[k]

MappedPayload(type, new, old) ==
  CASE type = "siteSetting" -> new = old
    [] type = "historySite" -> KeepsProps(new, old)
    [] type = "bookmark" ->
         /\ KeepsProps(new, old)
         /\ Has(old, "site") => KeepsProps(new.site, old.site)
    [] OTHER -> FALSE

\* C4: for a well-formed record with action UPDATE and no existing object,
\* resolve returns what synthesis yields: either null, or a record with
\* action CREATE, the deviceId, objectId and objectData of the update, the
\* mapped payload under the objectData key, and every other top-level
\* property of the update preserved.
C4_UpdateWithoutExisting ==
  (Called /\ HasAction("UPDATE") /\ ~ExistingPresent /\ WellFormed) =>
    \/ resolved = "null" /\ recordNow = record
    \/ /\ resolved = "record"
       /\ recordNow.action = "CREATE"
       /\ DOMAIN recordNow = DOMAIN record
       /\ \A k \in DOMAIN record \ {"action", record.objectData} :
            recordNow[k] = record[k]
       /\ MappedPayload(record.objectData, recordNow[record.objectData],
                        record[record.objectData])

C4_Witness ==
  /\ Called /\ HasAction("UPDATE") /\ ~ExistingPresent /\ WellFormed
  /\ resolved = "record"
  /\ recordNow.action = "CREATE"
  /\ recordNow.objectId = record.objectId

\* a property is present when the object carries a non-default value for it
\* (a non-empty string), which is how the wire format tells presence
Present(obj, k) == Has(obj, k) /\ obj[k] # ""

SynthesisPossible(rec) ==
  CASE rec.objectData = "bookmark" ->
         /\ Has(rec.bookmark, "site")
         /\ \/ Present(rec.bookmark.site, "location")
            \/ /\ Present(rec.bookmark.site, "customTitle")
               /\ Has(rec.bookmark, "folderId")
               /\ rec.bookmark.folderId > 0
    [] rec.objectData = "historySite" -> Present(rec.historySite, "location")
    [] rec.objectData = "siteSetting" -> Present(rec.siteSetting, "hostPattern")
    [] OTHER -> FALSE

\* C5: the synthesis of a CREATE from a well-formed UPDATE succeeds exactly
\* when, for a bookmark, site.location is present or site.customTitle is
\* present and folderId > 0; for a historySite, location is present; for a
\* siteSetting, hostPattern is present; never for a device or any other
\* objectData.  In every other case the result is null.
C5_SynthesisValidity ==
  (Called /\ HasAction("UPDATE") /\ ~ExistingPresent /\ WellFormed) =>
    /\ resolved = "record" <=> SynthesisPossible(record)
    /\ ~SynthesisPossible(record) => resolved = "null"

C5_Witness ==
  /\ Called /\ HasAction("UPDATE") /\ ~ExistingPresent /\ WellFormed
  /\ record.objectData = "bookmark"
  /\ Has(record.bookmark, "site")
  /\ ~Present(record.bookmark.site, "location")
  /\ Present(record.bookmark.site, "customTitle")
  /\ Has(record.bookmark, "folderId") /\ record.bookmark.folderId > 0
  /\ resolved = "record"

(***************************************************************************)
(* Properties of withRetry                                                 *)
(***************************************************************************)
Resolved(c) == pc[c] = "resolved"

Rejected(c) == pc[c] = "rejected"

\* the catch callback has called retry() with the error it was given last
\* (it is not waiting for, and has not lost, the body of its response)
Classified(c) == error[c] # NoError /\ error[c].attempt = failures[c]

\* C6: withRetry calls the operation at most retries + 1 times (at most
\* twice with the default budget); it resolves with the result of the first
\* attempt that succeeds, which is the last attempt it starts, and no
\* credential refresh follows that attempt.
C6_AttemptBudget ==
  \A c \in Calls :
    /\ attempts[c] <= budget + 1
    /\ budget = DefaultRetries => attempts[c] <= 2
    /\ Resolved(c) =>
         /\ value[c] = [attempt |-> attempts[c]]
         /\ failures[c] = attempts[c] - 1
         /\ refreshStarted[c] < attempts[c]
         /\ settled[c] = 1

C6_Witness ==
  \E c \in Calls :
    /\ Resolved(c)
    /\ budget = DefaultRetries
    /\ attempts[c] = 2
    /\ value[c] = [attempt |-> 2]

\* C7: every retried attempt is preceded by exactly one credential refresh
\* of its own, which has saved the new credentials before the attempt
\* begins: attempt n starts after n - 1 refreshes were started and all of
\* them completed.  With budget 1, an operation that fails twice with an
\* expired-credential error was attempted twice, refreshed once, and failed.
C7_RefreshBeforeRetry ==
  \A c \in Calls :
    /\ refreshDone[c] <= refreshStarted[c]
    /\ attempts[c] <= refreshDone[c] + 1
    /\ pc[c] = "attempt" =>
         /\ refreshStarted[c] = attempts[c] - 1
         /\ refreshDone[c] = attempts[c] - 1
         /\ expiredFailures[c] = attempts[c] - 1
    /\ (budget = 1 /\ expiredFailures[c] = 2) =>
         /\ attempts[c] = 2
         /\ refreshStarted[c] = 1
         /\ refreshDone[c] = 1
         /\ Rejected(c)

C7_Witness ==
  \E c \in Calls :
    /\ budget = 1
    /\ expiredFailures[c] = 2
    /\ refreshDone[c] = 1
    /\ Rejected(c)

\* C8 as claimed: an attempt that fails with an error that is not an
\* expired-credential error is retried as long as retry budget remains, so
\* that a call fails with such an error only when no budget remains.
C8_Original ==
  \A c \in Calls :
    (Classified(c) /\ ~isExpiredCredentialError(error[c]) /\ Rejected(c))
      => retries[c] = 0

\* C8 amended: an attempt that fails with an error that is not classified as
\* an expired-credential error is not retried, whatever budget remains:
\* withRetry starts no refresh and no further attempt, and fails with that
\* error.
C8_NonCredentialFailureEnds ==
  \A c \in Calls :
    (Classified(c) /\ ~isExpiredCredentialError(error[c])) =>
      /\ Rejected(c)
      /\ value[c] = error[c]
      /\ attempts[c] = failures[c]
      /\ refreshStarted[c] = failures[c] - 1

C8_Witness ==
  \E c \in Calls :
    /\ Rejected(c)
    /\ ~isExpiredCredentialError(error[c])
    /\ retries[c] >= 1
    /\ attempts[c] = 1
    /\ refreshStarted[c] = 0

\* C9 as claimed: when withRetry has exhausted its retry budget, it fails
\* with the error of the first failed attempt, which is attempt 1 (a call
\* makes no attempt after one that succeeds).
C9_Original ==
  \A c \in Calls :
    (Rejected(c) /\ retries[c] = 0) => value[c].attempt = 1

\* C9 amended: when withRetry has exhausted its retry budget, it fails with
\* the error of the most recent failed attempt (its message extended by the
\* body of its response), which is the first one only when there was a
\* single attempt.
C9_FailsWithLatestError ==
  \A c \in Calls :
    (Rejected(c) /\ retries[c] = 0) =>
      /\ value[c] = error[c]
      /\ value[c].attempt = attempts[c]
      /\ attempts[c] > 1 => value[c].attempt # 1

C9_Witness ==
  \E c \in Calls :
    /\ Rejected(c)
    /\ retries[c] = 0
    /\ attempts[c] = 2
    /\ failures[c] = 2
    /\ value[c].attempt = 2

\* C10: every call of withRetry eventually settles, its promise being
\* resolved or rejected exactly once, whatever the outcome of the attempts,
\* of the credential refresh and of reading the body of a failed response.
C10_EveryCallSettles ==
  \A c \in Calls :
    (pc[c] # "idle") ~> ((Resolved(c) \/ Rejected(c)) /\ settled[c] = 1)

(***************************************************************************)
(* Properties of put                                                       *)
(***************************************************************************)
\* attempt a of the put has an upload that was answered with 2xx
SomeUploaded(a) == \E i \in DOMAIN uploads[a] : Uploaded(uploads[a][i])

\* attempt a of the put has an upload that failed
SomeUploadFailed(a) == \E i \in DOMAIN uploads[a] : UploadFailed(uploads[a][i])

\* C11: every attempt of a put starts the uploads of all its keys together;
\* the put is resolved only by an attempt all of whose uploads were answered
\* with 2xx; and an attempt one of whose uploads failed is a failed attempt
\* (it is over, and did not resolve the put), whatever its other uploads did
C11_PutAllOrNothing ==
  /\ \A a \in DOMAIN uploads : DOMAIN uploads[a] = DOMAIN s3Keys
  /\ Resolved(Putter) =>
       \A i \in DOMAIN s3Keys : Uploaded(uploads[value[Putter].attempt][i])
  /\ \A a \in DOMAIN uploads :
       SomeUploadFailed(a) =>
         /\ ~(Resolved(Putter) /\ value[Putter].attempt = a)
         /\ a < attempts[Putter] \/ pc[Putter] # "attempt"

\* the put was resolved by its second attempt, after a first attempt in which
\* one upload succeeded and another failed
C11_Witness ==
  /\ Resolved(Putter)
  /\ value[Putter].attempt = 2
  /\ SomeUploaded(1)
  /\ SomeUploadFailed(1)

\* the keys attempt a of the put sent its uploads to
RequestKeys(a) == [i \in DOMAIN requests[a] |-> requests[a][i].body.key]

\* C12: the keys of a put are those computed from its arguments at the time
\* of the call, and every attempt of the put uploads exactly these keys,
\* whatever the clock and the credentials are when the attempt is made
C12_SameKeysEveryAttempt ==
  putArgs # NoValue =>
    /\ s3Keys =
         encodeDataToS3KeyArray(
           currentRecordPrefix(putArgs.category, putArgs.time), putArgs.record)
    /\ \A a \in DOMAIN requests : RequestKeys(a) = s3Keys

\* the put made a second attempt, with credentials that a refresh had
\* replaced, at a time when the clock had advanced since the call
C12_Witness ==
  /\ Len(requests) = 2
  /\ clock > putArgs.time
  /\ uploads[2] = [i \in DOMAIN s3Keys |-> Pending]
  /\ requests[2][1].body.postData # requests[1][1].body.postData

(***************************************************************************)
(* Properties of the credentials                                           *)
(***************************************************************************)
\* the credentials that are held after the bundle id was parsed and saved
FromBundle(id) ==
  saveAWSCredentials(
    parseAWSResponse([k \in {"aws", "s3Post", "region", "bucket"} |-> id]))

\* the bundles the constructor and the refreshes can be answered with
BundleIds ==
  {<<0, 0>>} \cup {<<c, n>> : c \in Calls, n \in 1 .. MaxRetries + 1}

\* the credentials are all unset, or all taken from one bundle
OneBundle ==
  \/ credentials = NoCredentials
  \/ \E id \in BundleIds : credentials = FromBundle(id)

\* a refresh of call c fails in this step: its response is not a success, its
\* fetch or the read of its body is rejected, or its bundle lacks a part
RefreshFails(c) ==
  /\ pc[c] \in {"refresh", "arrayBuffer"}
  /\ pc'[c] = "abandoned"

\* C13: whatever calls and refreshes are in flight together, the
\* credentials held are at every point either all unset or all taken from one
\* parsed bundle, and a step in which a refresh fails leaves them as they were
C13_CredentialsFromOneBundle ==
  /\ []OneBundle
  /\ [][(\E c \in Calls : RefreshFails(c)) => credentials' = credentials]_vars

\* a refresh of call 2 has failed, call 1 has refreshed as well, and
\* the credentials held are those the refresh of call 1 saved
C13_Witness ==
  /\ pc[2] = "abandoned"
  /\ refreshStarted[2] = 1
  /\ refreshDone[1] = 1
  /\ credentials = FromBundle(<<1, 1>>)

(***************************************************************************)
(* Properties of resolve: purity, re-resolution, synthesis, errors         *)
(***************************************************************************)
\* C14: a call of resolve leaves the record object and the existing object
\* it was passed as they were: the record of the caller still has its action
\* and its payload, for every action and existing object, the synthesis of a
\* CREATE from an UPDATE included
C14_ResolveIsPure ==
  Called => (recordNow = record /\ existingNow = existingObject)

\* C15 as stated: whenever resolve returned a record, resolving an identical
\* incoming record with that result as the existing object yields null
C15_Original == again # "pending" => again = "null"

\* C15: when resolve returned a record and an identical incoming record is
\* resolved with that result as the existing object, the outcome is null for
\* a CREATE and for an UPDATE that had an existing object; for a DELETE it
\* is the record again; for an UPDATE that was promoted to a CREATE it is
\* null exactly when the synthesis left the payload as it was
C15_ReResolution ==
  again # "pending" =>
    /\ HasAction("CREATE") => again = "null"
    /\ (HasAction("UPDATE") /\ ExistingPresent) => again = "null"
    /\ HasAction("DELETE") => again = "record"
    /\ (HasAction("UPDATE") /\ ~ExistingPresent) =>
         (again = "null" <=>
            recordNow[record.objectData] = record[record.objectData])

C15_Witness ==
  /\ HasAction("UPDATE") /\ ExistingPresent
  /\ resolved = "record"
  /\ again = "null"

\* resolve synthesized a CREATE from the UPDATE it was passed
Synthesized ==
  /\ Called /\ HasAction("UPDATE") /\ ~ExistingPresent /\ WellFormed
  /\ resolved = "record"

\* the UPDATE is that of a bookmark with folderId > 0
IsFolderUpdate ==
  /\ record.objectData = "bookmark"
  /\ Has(record.bookmark, "folderId")
  /\ record.bookmark.folderId > 0

\* the synthesis applied the site defaulting: to a historySite, or to the
\* site of a bookmark that is not a folder
SiteDefaulted ==
  /\ Synthesized
  /\ \/ record.objectData = "historySite"
     \/ record.objectData = "bookmark" /\ ~IsFolderUpdate

InputSite ==
  IF record.objectData = "historySite" THEN record.historySite
  ELSE record.bookmark.site

OutputSite ==
  IF record.objectData = "historySite" THEN recordNow.historySite
  ELSE recordNow.bookmark.site

SiteDefaults == {"title", "customTitle", "lastAccessedTime", "creationTime"}

\* C16: the site defaulting keeps every property the input site carries
\* (title, customTitle, lastAccessedTime and creationTime included, whatever
\* their values, and location) and adds the four defaults for those the
\* input does not carry: title "", customTitle the location of the site,
\* lastAccessedTime and creationTime a time read from the clock in the call
C16_SiteDefaulting ==
  SiteDefaulted =>
    /\ DOMAIN OutputSite = DOMAIN InputSite \cup SiteDefaults
    /\ \A k \in DOMAIN InputSite : OutputSite[k] = InputSite[k]
    /\ ~Has(InputSite, "title") => OutputSite.title = ""
    /\ ~Has(InputSite, "customTitle") =>
         OutputSite.customTitle = InputSite.location
    /\ ~Has(InputSite, "lastAccessedTime") =>
         OutputSite.lastAccessedTime \in {now[1], now[2]}
    /\ ~Has(InputSite, "creationTime") =>
         OutputSite.creationTime \in {now[1], now[2]}

C16_Witness ==
  /\ SiteDefaulted
  /\ Has(InputSite, "title") /\ OutputSite.title = "jisho"
  /\ ~Has(InputSite, "customTitle") /\ OutputSite.customTitle = InputSite.location
  /\ Has(InputSite, "lastAccessedTime")
  /\ ~Has(InputSite, "creationTime") /\ OutputSite.creationTime = now[2]

\* C17 as stated: the synthesized bookmark has isFolder = TRUE exactly when
\* folderId > 0, whatever isFolder the bookmark of the UPDATE carried
C17_Original ==
  (Synthesized /\ record.objectData = "bookmark") =>
    recordNow.bookmark.isFolder = IsFolderUpdate

\* C17: the synthesized bookmark keeps every property the bookmark of the
\* UPDATE carries, its isFolder included; when the bookmark carries no
\* isFolder it is TRUE for folderId > 0 and FALSE otherwise; the site is
\* passed through unchanged for folderId > 0 and is defaulted otherwise
C17_IsFolderDefault ==
  (Synthesized /\ record.objectData = "bookmark") =>
    /\ DOMAIN recordNow.bookmark = DOMAIN record.bookmark \cup {"isFolder"}
    /\ \A k \in DOMAIN record.bookmark \ {"site"} :
         recordNow.bookmark[k] = record.bookmark[k]
    /\ ~Has(record.bookmark, "isFolder") =>
         recordNow.bookmark.isFolder = IsFolderUpdate
    /\ IsFolderUpdate => recordNow.bookmark.site = record.bookmark.site
    /\ ~IsFolderUpdate =>
         /\ SiteDefaults \subseteq DOMAIN recordNow.bookmark.site
         /\ \A k \in DOMAIN record.bookmark.site :
              recordNow.bookmark.site[k] = record.bookmark.site[k]

C17_Witness ==
  /\ Synthesized /\ record.objectData = "bookmark" /\ IsFolderUpdate
  /\ Has(record.bookmark, "isFolder") /\ ~record.bookmark.isFolder
  /\ ~recordNow.bookmark.isFolder

\* C18: resolve throws when the record is absent and when its action is not
\* CREATE, UPDATE or DELETE; for a record with one of these actions that
\* carries the payload its objectData names, and any existing object or
\* none, it returns the record or null and does not throw
C18_ThrowsOnInvalidOnly ==
  Called =>
    /\ (record = Undefined \/ record.action \notin Actions) =>
         resolved = "throw"
    /\ (WellFormed /\ record.action \in Actions) =>
         resolved \in {"record", "null"}

C18_Witness ==
  /\ Called /\ WellFormed
  /\ record.action \notin Actions
  /\ resolved = "throw"

\* C19: when the site defaulting sets both lastAccessedTime and
\* creationTime, the synthesized site has creationTime = lastAccessedTime,
\* also when the clock advances during the call
C19_SameInstant ==
  (SiteDefaulted /\ ~Has(InputSite, "lastAccessedTime")
     /\ ~Has(InputSite, "creationTime")) =>
    OutputSite.creationTime = OutputSite.lastAccessedTime

\* the payload types that objectData can name
KnownPayloadTypes == {"bookmark", "historySite", "siteSetting", "device"}

UnknownObjectData ==
  record # Undefined /\ record.objectData \notin KnownPayloadTypes

\* C20 as stated: resolve throws for a record whose objectData names no
\* known payload type, for every action and existing object
C20_Original == (Called /\ UnknownObjectData) => resolved = "throw"

\* C20: for a record with a known action whose objectData names no known
\* payload type resolve does not throw: an UPDATE without an existing object
\* is ignored (null, the record untouched), and every other case is resolved
\* as for a known objectData
C20_UnknownObjectDataIgnored ==
  (Called /\ UnknownObjectData /\ record.action \in Actions) =>
    /\ resolved # "throw"
    /\ (HasAction("UPDATE") /\ ~ExistingPresent) =>
         (resolved = "null" /\ recordNow = record)
    /\ HasAction("CREATE") => (resolved = "null" <=> ExistingPresent)
    /\ HasAction("DELETE") => (resolved = "record" <=> ExistingPresent)

C20_Witness ==
  /\ Called /\ UnknownObjectData
  /\ HasAction("UPDATE") /\ ~ExistingPresent
  /\ resolved = "null"

\* C21: the action of the record that resolve returns fits the local state:
\* without an existing object it is CREATE; with an existing object the
\* record is the one that was passed, unchanged, and its action is UPDATE or
\* DELETE
C21_ActionFitsLocalState ==
  resolved = "record" =>
    IF ~ExistingPresent THEN recordNow.action = "CREATE"
    ELSE recordNow = record /\ record.action \in {"UPDATE", "DELETE"}

\* an UPDATE without an existing object was returned as a CREATE
C21_Witness ==
  /\ HasAction("UPDATE") /\ ~ExistingPresent
  /\ resolved = "record"
  /\ recordNow.action = "CREATE"

(***************************************************************************)
(* Properties of list, put and the deletions                               *)
(***************************************************************************)
\* the S3 client and the bucket of a request are those of one bundle, or
\* no credentials were held
FromOneBundle(arguments) ==
  \/ arguments.s3 = Unset /\ arguments.bucket = Unset
  \/ \E id \in BundleIds :
       /\ arguments.s3 = FromBundle(id).s3
       /\ arguments.bucket = FromBundle(id).bucket

\* the form fields and the endpoint of all uploads of attempt a of the put
\* are those of one bundle
UploadsFromOneBundle(a) ==
  \E id \in BundleIds :
    \A i \in DOMAIN requests[a] :
      /\ requests[a][i].url = FromBundle(id).s3PostEndpoint
      /\ requests[a][i].body.postData = FromBundle(id).postData

\* C22: every attempt of a list, a put or a deletion, the attempts made
\* after a refresh included, sends credential-derived arguments (S3 client
\* and bucket, post form fields and post endpoint) that all come from one
\* set of credentials, and all uploads of one attempt of a put use the
\* same set
C22_AttemptsUseOneCredentialSet ==
  /\ \A c \in Calls : \A n \in DOMAIN sent[c] : FromOneBundle(sent[c][n])
  /\ \A a \in DOMAIN requests : UploadsFromOneBundle(a)

\* the object is one that the deletion op is meant to delete
InScope(o, op) ==
  /\ o.userId = userId
  /\ \/ op.kind = "deleteUser"
     \/ op.kind = "deleteCategory" /\ o.category = op.category

\* C23: an object that is gone from the bucket was in the scope of a
\* deletion that was called: deleteCategory(c) deletes only keys of category
\* c of this user, also when the id of another category begins with c, and
\* deleteUser deletes only keys of this user
C23_DeletionsAreScoped ==
  \A o \in InitialStore \ store :
    \E c \in Calls :
      /\ operation[c] # NoValue
      /\ operation[c].kind # "list"
      /\ InScope(o, operation[c])

=============================================================================
